---- MODULE Spec2Model ----
(***************************************************************************)
(* Booking subsystem of ekappiah7/ashlock: the slot-availability           *)
(* computation (BookingModel.getAvailableSlots), the check-then-insert     *)
(* booking creation (BookingService.createBooking + BookingModel.create),  *)
(* the booking lifecycle writes (BookingModel.update / delete) and the     *)
(* service catalogue writes (ServiceModel.update / delete).                *)
(*                                                                         *)
(* Every `await` of the source is one step: a request is suspended only at *)
(* a store read or write, and each store statement is atomic on its own.   *)
(*                                                                         *)
(* Strings that the code builds, compares or parses (times of day) are     *)
(* sequences of one-character strings, so that padStart, split and         *)
(* parseInt are computed and not assumed.  Calendar dates are day numbers  *)
(* (the `date` column; server and database session in one time zone).      *)
(***************************************************************************)
EXTENDS Integers, Sequences, FiniteSets, TLC

VARIABLES services, bookings, now, reqs, last, callsLeft, writesLeft

vars == <<services, bookings, now, reqs, last, callsLeft, writesLeft>>

(***************************************************************************)
(* Bounds of the exploration (not program constants).                      *)
(***************************************************************************)
MaxRequests == 2          \* requests started in one behaviour of Spec
MaxAdminWrites == 1       \* administrative writes in one behaviour of Spec
MaxLifecycleWrites == 3   \* administrative writes in one behaviour of LifecycleSpec

(***************************************************************************)
(* SQL NULL, per column type.                                              *)
(***************************************************************************)
NullTime == 0        \* confirmed_at / started_at / completed_at IS NULL
NullCost == 0 - 1    \* estimated_cost / actual_cost IS NULL
NullText == "NULL"   \* assigned_technician IS NULL, priority not supplied

(***************************************************************************)
(* Text helpers: Number.prototype.toString, String.prototype.padStart,     *)
(* String.prototype.split(':')[0] and parseInt, on sequences of characters.*)
(***************************************************************************)
DigitChars == <<"0", "1", "2", "3", "4", "5", "6", "7", "8", "9">>

DigitChar(d) == DigitChars[d + 1]

IsDigit(c) == \E d \in 0..9 : DigitChars[d + 1] = c

DigitValue(c) == CHOOSE d \in 0..9 : DigitChars[d + 1] = c

\* hour.toString() for 0 <= n <= 99
NumToString(n) == IF n < 10 THEN <<DigitChar(n)>> ELSE <<DigitChar(n \div 10), DigitChar(n % 10)>>

\* s.padStart(2, '0')
PadStart2(s) == IF Len(s) >= 2 THEN s ELSE IF Len(s) = 1 THEN <<"0">> \o s ELSE <<"0", "0">>

\* `${hour.toString().padStart(2, '0')}:00`
TimeString(hour) == PadStart2(NumToString(hour)) \o <<":", "0", "0">>

\* s.split(':')[0]
SplitColonFirst(s) ==
  IF \E i \in 1..Len(s) : s[i] = ":"
  THEN SubSeq(s, 1, (CHOOSE i \in 1..Len(s) : s[i] = ":" /\ \A j \in 1..(i - 1) : s[j] # ":") - 1)
  ELSE s

RECURSIVE ParseDigits(_, _)
ParseDigits(s, acc) ==
  IF s = <<>> \/ ~IsDigit(Head(s)) THEN acc
  ELSE ParseDigits(Tail(s), 10 * acc + DigitValue(Head(s)))

NaN == 0 - 1000

\* parseInt(s): the leading decimal digits, NaN when there is none
ParseInt(s) == IF s = <<>> \/ ~IsDigit(Head(s)) THEN NaN ELSE ParseDigits(s, 0)

(***************************************************************************)
(* The `time` column: PostgreSQL accepts 'H:MM' and 'HH:MM' and hands the  *)
(* value back as 'HH:MM:SS'.                                               *)
(***************************************************************************)
DbTime(s) ==
  LET h == ParseInt(SplitColonFirst(s))
      rest == SubSeq(s, Len(SplitColonFirst(s)) + 2, Len(s))
  IN  PadStart2(NumToString(h)) \o <<":">> \o SubSeq(rest, 1, 2) \o <<":", "0", "0">>

(***************************************************************************)
(* Inputs.                                                                 *)
(***************************************************************************)
Procs == {1, 2}

ServiceIds == {1, 2}

LockInstallation == "Lock Installation"

LockRepair == "Lock Repair"

Rekeying == "Rekeying"

Names == {LockInstallation, LockRepair, Rekeying}

ReqServices == {LockInstallation, LockRepair}

Dates == {15, 16}

T0800 == <<"0", "8", ":", "0", "0">>

T0900 == <<"0", "9", ":", "0", "0">>

T900 == <<"9", ":", "0", "0">>

T0930 == <<"0", "9", ":", "3", "0">>

T1000 == <<"1", "0", ":", "0", "0">>

T1100 == <<"1", "1", ":", "0", "0">>

T1700 == <<"1", "7", ":", "0", "0">>

\* bookingTime values that pass validateBooking's /^([0-1]?[0-9]|2[0-3]):[0-5][0-9]$/
ReqTimes == {T0800, T0900, T900, T0930, T1000, T1700}

Priorities == {NullText, "high"}

Statuses == {"pending", "confirmed", "in_progress", "completed", "cancelled", "no_show"}

BookingStatuses == Statuses

(***************************************************************************)
(* seeds: the first two services inserted (name, base_price,              *)
(* estimated_duration; both active and bookable).                          *)
(***************************************************************************)
SeedServices ==
  [id \in ServiceIds |->
     IF id = 1
     THEN [name |-> LockInstallation, base_price |-> 150, estimated_duration |-> 120,
           is_active |-> TRUE, is_available_for_booking |-> TRUE, updated_at |-> NullTime]
     ELSE [name |-> LockRepair, base_price |-> 85, estimated_duration |-> 60,
           is_active |-> TRUE, is_available_for_booking |-> TRUE, updated_at |-> NullTime]]

(***************************************************************************)
(* A request that is not running, and the result of no operation.          *)
(***************************************************************************)
NoSlot == [time |-> <<>>, available |-> FALSE]

NoService == [id |-> 0, base_price |-> NullCost, estimated_duration |-> 0]

IdleReq ==
  [pc |-> "idle", kind |-> "none", service |-> NullText, bookingDate |-> 0,
   bookingTime |-> <<>>, priority |-> NullText, duration |-> 0, slots |-> <<>>,
   slot |-> NoSlot, svc |-> NoService, code |-> 0, id |-> 0]

NoUpdates == [none |-> TRUE]

NoOp == [op |-> "none", id |-> 0, code |-> 0, updates |-> NoUpdates]

(***************************************************************************)
(* BookingModel.getAvailableSlots, the computation between its two reads.  *)
(***************************************************************************)
startHour == 9

endHour == 17

\* the loop run through endHour (hour <= endHour)
TimeSlotsThroughEndHour ==
  [i \in 1..(endHour - startHour + 1) |->
     [time |-> TimeString(startHour + i - 1), available |-> TRUE]]

\* for (hour = startHour; hour < endHour; hour++) timeSlots.push({time, available: true})
TimeSlots ==
  [i \in 1..(endHour - startHour) |->
     [time |-> TimeString(startHour + i - 1), available |-> TRUE]]

\* the booking's end taken from the service's duration, not from the booking's own
OverlapsServiceDuration(slotStart, duration, bookingHour, bookingDuration) ==
  /\ 60 * slotStart < 60 * bookingHour + duration
  /\ 60 * slotStart + duration > 60 * bookingHour

\* intervals that only touch counted as overlapping (<= and >=)
OverlapsTouching(slotStart, duration, bookingHour, bookingDuration) ==
  /\ 60 * slotStart <= 60 * bookingHour + bookingDuration
  /\ 60 * slotStart + duration >= 60 * bookingHour

\* slotStart < bookingEnd && slotEnd > bookingHour, with slotEnd = slotStart + duration/60
\* and bookingEnd = bookingHour + booking.duration/60: both sides times 60, which is exact
\* (a duration that is no multiple of 60 is at least 1/60 away from a whole hour).
Overlaps(slotStart, duration, bookingHour, bookingDuration) ==
  /\ 60 * slotStart < 60 * bookingHour + bookingDuration
  /\ 60 * slotStart + duration > 60 * bookingHour

\* the booking's start taken with its minutes: hour + minutes/60
HasConflictToTheMinute(slot, duration, existingBookings) ==
  LET slotStart == ParseInt(SplitColonFirst(slot.time))
  IN  \E i \in 1..Len(existingBookings) :
        LET t == existingBookings[i].booking_time
            bookingStart == 60 * ParseInt(SplitColonFirst(t)) + ParseInt(SubSeq(t, 4, 5))
        IN  /\ 60 * slotStart < bookingStart + existingBookings[i].duration
            /\ 60 * slotStart + duration > bookingStart

\* existingBookings.some(booking => ...)
HasConflict(slot, duration, existingBookings) ==
  LET slotStart == ParseInt(SplitColonFirst(slot.time))
  IN  \E i \in 1..Len(existingBookings) :
        LET bookingHour == ParseInt(SplitColonFirst(existingBookings[i].booking_time))
        IN  Overlaps(slotStart, duration, bookingHour, existingBookings[i].duration)

\* timeSlots.map(slot => ({time: slot.time, available: !hasConflict}))
AvailableSlots(duration, existingBookings) ==
  [i \in 1..Len(TimeSlots) |->
     [time |-> TimeSlots[i].time,
      available |-> ~HasConflict(TimeSlots[i], duration, existingBookings)]]

\* .whereNotIn('status', ['cancelled', 'no_show'])
InactiveStatuses == {"cancelled", "no_show"}

\* the query with whereNot('status', 'cancelled'): no_show left in
ExistingBookingsNoShowCounts(rows, service, date) ==
  SelectSeq(rows, LAMBDA b : /\ b.booking_date = date
                             /\ b.service = service
                             /\ b.status # "cancelled")

\* the query without its whereNotIn('status', ...)
ExistingBookingsAnyStatus(rows, service, date) ==
  SelectSeq(rows, LAMBDA b : b.booking_date = date /\ b.service = service)

\* the bookings matched by the id of a service of that name, not by the stored name
ExistingBookingsByServiceId(rows, service, date) ==
  SelectSeq(rows, LAMBDA b : /\ b.booking_date = date
                             /\ \E s \in ServiceIds : /\ services[s].name = service
                                                      /\ b.service_id = s
                             /\ b.status \notin InactiveStatuses)

\* db('bookings').where('booking_date', date).where('service', service).whereNotIn(...)
ExistingBookings(rows, service, date) ==
  SelectSeq(rows, LAMBDA b : /\ b.booking_date = date
                             /\ b.service = service
                             /\ b.status \notin InactiveStatuses)

\* the slot looked up by its hour: find(slot => parseInt(slot.time) === parseInt(bookingTime))
FindSlotByHour(slots, bookingTime) ==
  IF \E i \in 1..Len(slots) :
       ParseInt(SplitColonFirst(slots[i].time)) = ParseInt(SplitColonFirst(bookingTime))
  THEN slots[CHOOSE i \in 1..Len(slots) :
               ParseInt(SplitColonFirst(slots[i].time)) = ParseInt(SplitColonFirst(bookingTime))]
  ELSE NoSlot

\* availableSlots.find(slot => slot.time === bookingData.bookingTime)
FindSlot(slots, bookingTime) ==
  IF \E i \in 1..Len(slots) : slots[i].time = bookingTime
  THEN slots[CHOOSE i \in 1..Len(slots) :
               slots[i].time = bookingTime /\ \A j \in 1..(i - 1) : slots[j].time # bookingTime]
  ELSE NoSlot

\* the services query without its is_available_for_booking condition
BookableServicesActiveOnly(service) ==
  {s \in ServiceIds : services[s].name = service /\ services[s].is_active}

\* db('services').where('name', service).where('is_active', true)
\*   .where('is_available_for_booking', true)
BookableServices(service) ==
  {s \in ServiceIds : /\ services[s].name = service
                      /\ services[s].is_active
                      /\ services[s].is_available_for_booking}

\* db('services').where('name', bookingData.service)
NamedServices(service) == {s \in ServiceIds : services[s].name = service}

Init ==
  /\ services = SeedServices
  /\ bookings = <<>>
  /\ now = 1
  /\ reqs = [r \in Procs |-> IdleReq]
  /\ last = NoOp
  /\ callsLeft = MaxRequests
  /\ writesLeft = MaxAdminWrites

(***************************************************************************)
(* The requests.  A createBooking call is four store statements:           *)
(*   getAvailableSlots: services read, bookings read (then the find),      *)
(*   BookingModel.create: services read, bookings insert.                  *)
(* An availability query is the first two.                                 *)
(***************************************************************************)
Has(u, f) == f \in DOMAIN u

\* BookingController.createBooking -> BookingService.createBooking(req.body)
CreateBooking(r, service, bookingDate, bookingTime, priority) ==
  /\ reqs[r].pc = "idle"
  /\ callsLeft > 0
  /\ \A q \in Procs : q < r => reqs[q].pc # "idle"
  /\ reqs' = [reqs EXCEPT ![r] = [IdleReq EXCEPT !.pc = "gas_service",
                                                 !.kind = "createBooking",
                                                 !.service = service,
                                                 !.bookingDate = bookingDate,
                                                 !.bookingTime = bookingTime,
                                                 !.priority = priority]]
  /\ callsLeft' = callsLeft - 1
  /\ UNCHANGED <<services, bookings, now, last, writesLeft>>

\* BookingController.checkAvailability -> BookingService.getAvailableSlots(service, date)
CheckAvailability(r, service, date) ==
  /\ reqs[r].pc = "idle"
  /\ callsLeft > 0
  /\ \A q \in Procs : q < r => reqs[q].pc # "idle"
  /\ reqs' = [reqs EXCEPT ![r] = [IdleReq EXCEPT !.pc = "gas_service",
                                                 !.kind = "getAvailableSlots",
                                                 !.service = service,
                                                 !.bookingDate = date]]
  /\ callsLeft' = callsLeft - 1
  /\ UNCHANGED <<services, bookings, now, last, writesLeft>>

\* getAvailableSlots: const serviceData = await db('services')...first();
\* if (!serviceData) throw new CustomError('Service not available', 404)
GasReadService(r) ==
  /\ reqs[r].pc = "gas_service"
  /\ IF BookableServices(reqs[r].service) = {}
     THEN reqs' = [reqs EXCEPT ![r].pc = "done", ![r].code = 404]
     ELSE \E s \in BookableServices(reqs[r].service) :
            reqs' = [reqs EXCEPT ![r].pc = "gas_bookings",
                                 ![r].duration = services[s].estimated_duration]
  /\ UNCHANGED <<services, bookings, now, last, callsLeft, writesLeft>>

\* getAvailableSlots: const existingBookings = await db('bookings')...; return availableSlots
\* createBooking: find the requested slot, throw 400 unless it is there and available
GasReadBookings(r) ==
  /\ reqs[r].pc = "gas_bookings"
  /\ LET existingBookings ==
           ExistingBookings(bookings, reqs[r].service, reqs[r].bookingDate)
         availableSlots == AvailableSlots(reqs[r].duration, existingBookings)
         requestedTimeSlot == FindSlot(availableSlots, reqs[r].bookingTime)
     IN  IF reqs[r].kind = "getAvailableSlots"
         THEN reqs' = [reqs EXCEPT ![r].pc = "done", ![r].code = 200,
                                   ![r].slots = availableSlots]
         ELSE IF requestedTimeSlot = NoSlot \/ ~requestedTimeSlot.available
              THEN reqs' = [reqs EXCEPT ![r].pc = "done", ![r].code = 400,
                                        ![r].slot = requestedTimeSlot]
              ELSE reqs' = [reqs EXCEPT ![r].pc = "create_service",
                                        ![r].slot = requestedTimeSlot]
  /\ UNCHANGED <<services, bookings, now, last, callsLeft, writesLeft>>

\* BookingModel.create: const service = await db('services').where('name', ...).first();
\* if (!service) throw new CustomError('Service not found', 404)
CreateReadService(r) ==
  /\ reqs[r].pc = "create_service"
  /\ IF NamedServices(reqs[r].service) = {}
     THEN reqs' = [reqs EXCEPT ![r].pc = "done", ![r].code = 404]
     ELSE \E s \in NamedServices(reqs[r].service) :
            reqs' = [reqs EXCEPT ![r].pc = "create_insert",
                                 ![r].svc = [id |-> s,
                                             base_price |-> services[s].base_price,
                                             estimated_duration |->
                                               services[s].estimated_duration]]
  /\ UNCHANGED <<services, bookings, now, last, callsLeft, writesLeft>>

\* the insert without its duration column: the table's default of 60 applies
NewBookingDefaultDuration(req, service, at) ==
  [service_id |-> service.id,
   service |-> req.service,
   booking_date |-> req.bookingDate,
   booking_time |-> DbTime(req.bookingTime),
   duration |-> 60,
   status |-> "pending",
   priority |-> IF req.priority = NullText THEN "medium" ELSE req.priority,
   estimated_cost |-> service.base_price,
   actual_cost |-> NullCost,
   assigned_technician |-> NullText,
   confirmed_at |-> NullTime,
   started_at |-> NullTime,
   completed_at |-> NullTime,
   updated_at |-> at]

\* the columns the insert leaves out take the table's defaults (migration):
\* status 'pending', the cost, technician and status timestamps NULL
NewBooking(req, service, at) ==
  [service_id |-> service.id,
   service |-> req.service,
   booking_date |-> req.bookingDate,
   booking_time |-> DbTime(req.bookingTime),
   duration |-> service.estimated_duration,
   status |-> "pending",
   priority |-> IF req.priority = NullText THEN "medium" ELSE req.priority,
   estimated_cost |-> service.base_price,
   actual_cost |-> NullCost,
   assigned_technician |-> NullText,
   confirmed_at |-> NullTime,
   started_at |-> NullTime,
   completed_at |-> NullTime,
   updated_at |-> at]

\* the insert refused when an active booking of the service and date starts at the same hour
CreateInsertIfFree(r) ==
  /\ reqs[r].pc = "create_insert"
  /\ IF \E i \in 1..Len(bookings) :
          /\ bookings[i].service = reqs[r].service
          /\ bookings[i].booking_date = reqs[r].bookingDate
          /\ bookings[i].booking_time = DbTime(reqs[r].bookingTime)
          /\ bookings[i].status \notin InactiveStatuses
     THEN /\ reqs' = [reqs EXCEPT ![r].pc = "done", ![r].code = 400]
          /\ UNCHANGED <<bookings, now>>
     ELSE /\ bookings' = Append(bookings, NewBooking(reqs[r], reqs[r].svc, now))
          /\ now' = now + 1
          /\ reqs' = [reqs EXCEPT ![r].pc = "done", ![r].code = 201,
                                  ![r].id = Len(bookings) + 1]
  /\ UNCHANGED <<services, last, callsLeft, writesLeft>>

\* BookingModel.create: const [booking] = await db('bookings').insert({...}).returning(['*'])
CreateInsert(r) ==
  /\ reqs[r].pc = "create_insert"
  /\ bookings' = Append(bookings, NewBooking(reqs[r], reqs[r].svc, now))
  /\ now' = now + 1
  /\ reqs' = [reqs EXCEPT ![r].pc = "done", ![r].code = 201, ![r].id = Len(bookings) + 1]
  /\ UNCHANGED <<services, last, callsLeft, writesLeft>>

\* a refused createBooking started again by the handler instead of being answered
RespondRetrying(r) ==
  /\ reqs[r].pc = "done"
  /\ reqs' = [reqs EXCEPT ![r] = IF reqs[r].code = 400
                                 THEN [@ EXCEPT !.pc = "gas_service", !.code = 0]
                                 ELSE IdleReq]
  /\ UNCHANGED <<services, bookings, now, last, callsLeft, writesLeft>>

\* the response is sent; the connection can carry the next request
Respond(r) ==
  /\ reqs[r].pc = "done"
  /\ reqs' = [reqs EXCEPT ![r] = IdleReq]
  /\ UNCHANGED <<services, bookings, now, last, callsLeft, writesLeft>>

(***************************************************************************)
(* The administrative writes: one UPDATE ... RETURNING statement each.     *)
(***************************************************************************)
\* the three stamps reset when the status is written back to pending
UpdatedBookingResetsStamps(row, updates, at) ==
  LET back == Has(updates, "status") /\ updates.status = "pending"
  IN  [row EXCEPT
         !.updated_at = at,
         !.status = IF Has(updates, "status") THEN updates.status ELSE @,
         !.confirmed_at =
            IF back THEN NullTime
            ELSE IF Has(updates, "status") /\ updates.status = "confirmed" THEN at ELSE @,
         !.started_at =
            IF back THEN NullTime
            ELSE IF Has(updates, "status") /\ updates.status = "in_progress" THEN at ELSE @,
         !.completed_at =
            IF back THEN NullTime
            ELSE IF Has(updates, "status") /\ updates.status = "completed" THEN at ELSE @,
         !.booking_date = IF Has(updates, "bookingDate") THEN updates.bookingDate ELSE @,
         !.booking_time =
            IF Has(updates, "bookingTime") THEN DbTime(updates.bookingTime) ELSE @,
         !.priority = IF Has(updates, "priority") THEN updates.priority ELSE @,
         !.estimated_cost = IF Has(updates, "estimatedCost") THEN updates.estimatedCost ELSE @,
         !.actual_cost = IF Has(updates, "actualCost") THEN updates.actualCost ELSE @,
         !.assigned_technician =
            IF Has(updates, "assignedTechnician") THEN updates.assignedTechnician ELSE @]

\* started_at left out of the stamps: only confirmed_at and completed_at are set
UpdatedBookingNoStartStamp(row, updates, at) ==
  [row EXCEPT
     !.updated_at = at,
     !.status = IF Has(updates, "status") THEN updates.status ELSE @,
     !.confirmed_at =
        IF Has(updates, "status") /\ updates.status = "confirmed" THEN at ELSE @,
     !.completed_at =
        IF Has(updates, "status") /\ updates.status = "completed" THEN at ELSE @,
     !.booking_date = IF Has(updates, "bookingDate") THEN updates.bookingDate ELSE @,
     !.booking_time = IF Has(updates, "bookingTime") THEN DbTime(updates.bookingTime) ELSE @,
     !.priority = IF Has(updates, "priority") THEN updates.priority ELSE @,
     !.estimated_cost = IF Has(updates, "estimatedCost") THEN updates.estimatedCost ELSE @,
     !.actual_cost = IF Has(updates, "actualCost") THEN updates.actualCost ELSE @,
     !.assigned_technician =
        IF Has(updates, "assignedTechnician") THEN updates.assignedTechnician ELSE @]

\* assigning a technician also confirms the booking
UpdatedBookingAssignConfirms(row, updates, at) ==
  LET confirms == Has(updates, "assignedTechnician")
                    \/ (Has(updates, "status") /\ updates.status = "confirmed")
  IN  [row EXCEPT
         !.updated_at = at,
         !.status = IF Has(updates, "status") THEN updates.status
                    ELSE IF confirms THEN "confirmed" ELSE @,
         !.confirmed_at = IF confirms THEN at ELSE @,
         !.started_at =
            IF Has(updates, "status") /\ updates.status = "in_progress" THEN at ELSE @,
         !.completed_at =
            IF Has(updates, "status") /\ updates.status = "completed" THEN at ELSE @,
         !.booking_date = IF Has(updates, "bookingDate") THEN updates.bookingDate ELSE @,
         !.booking_time =
            IF Has(updates, "bookingTime") THEN DbTime(updates.bookingTime) ELSE @,
         !.priority = IF Has(updates, "priority") THEN updates.priority ELSE @,
         !.estimated_cost = IF Has(updates, "estimatedCost") THEN updates.estimatedCost ELSE @,
         !.actual_cost = IF Has(updates, "actualCost") THEN updates.actualCost ELSE @,
         !.assigned_technician =
            IF Has(updates, "assignedTechnician") THEN updates.assignedTechnician ELSE @]

\* confirmed_at stamped on every status write, not only on 'confirmed'
UpdatedBookingRestamps(row, updates, at) ==
  [row EXCEPT
     !.updated_at = at,
     !.status = IF Has(updates, "status") THEN updates.status ELSE @,
     !.confirmed_at = IF Has(updates, "status") THEN at ELSE @,
     !.started_at =
        IF Has(updates, "status") /\ updates.status = "in_progress" THEN at ELSE @,
     !.completed_at =
        IF Has(updates, "status") /\ updates.status = "completed" THEN at ELSE @,
     !.booking_date = IF Has(updates, "bookingDate") THEN updates.bookingDate ELSE @,
     !.booking_time = IF Has(updates, "bookingTime") THEN DbTime(updates.bookingTime) ELSE @,
     !.priority = IF Has(updates, "priority") THEN updates.priority ELSE @,
     !.estimated_cost = IF Has(updates, "estimatedCost") THEN updates.estimatedCost ELSE @,
     !.actual_cost = IF Has(updates, "actualCost") THEN updates.actualCost ELSE @,
     !.assigned_technician =
        IF Has(updates, "assignedTechnician") THEN updates.assignedTechnician ELSE @]

\* BookingModel.update: updateData built from the fields present in `updates`
UpdatedBooking(row, updates, at) ==
  [row EXCEPT
     !.updated_at = at,
     !.status = IF Has(updates, "status") THEN updates.status ELSE @,
     !.confirmed_at =
        IF Has(updates, "status") /\ updates.status = "confirmed" THEN at ELSE @,
     !.started_at =
        IF Has(updates, "status") /\ updates.status = "in_progress" THEN at ELSE @,
     !.completed_at =
        IF Has(updates, "status") /\ updates.status = "completed" THEN at ELSE @,
     !.booking_date = IF Has(updates, "bookingDate") THEN updates.bookingDate ELSE @,
     !.booking_time = IF Has(updates, "bookingTime") THEN DbTime(updates.bookingTime) ELSE @,
     !.priority = IF Has(updates, "priority") THEN updates.priority ELSE @,
     !.estimated_cost = IF Has(updates, "estimatedCost") THEN updates.estimatedCost ELSE @,
     !.actual_cost = IF Has(updates, "actualCost") THEN updates.actualCost ELSE @,
     !.assigned_technician =
        IF Has(updates, "assignedTechnician") THEN updates.assignedTechnician ELSE @]

\* the cancellation that also takes the technician off the booking
CancelledBookingUnassigns(row, at) ==
  [row EXCEPT !.status = "cancelled", !.updated_at = at, !.assigned_technician = NullText]

\* BookingModel.delete: update({status: 'cancelled', updated_at: new Date()})
CancelledBooking(row, at) == [row EXCEPT !.status = "cancelled", !.updated_at = at]

\* a status write refused (400) on a booking that is completed, cancelled or no_show
BookingModelUpdateGuarded(op, id, updates) ==
  /\ writesLeft > 0
  /\ IF id \notin 1..Len(bookings)
     THEN /\ bookings' = bookings
          /\ last' = [op |-> op, id |-> id, code |-> 404, updates |-> updates]
     ELSE IF Has(updates, "status")
             /\ bookings[id].status \in {"completed", "cancelled", "no_show"}
     THEN /\ bookings' = bookings
          /\ last' = [op |-> op, id |-> id, code |-> 400, updates |-> updates]
     ELSE /\ bookings' = [bookings EXCEPT ![id] = UpdatedBooking(@, updates, now)]
          /\ last' = [op |-> op, id |-> id, code |-> 200, updates |-> updates]
  /\ now' = now + 1
  /\ writesLeft' = writesLeft - 1
  /\ UNCHANGED <<services, reqs, callsLeft>>

\* a new bookingTime checked against the grid before the write: 400 when it is no slot
BookingModelUpdateOnGrid(op, id, updates) ==
  /\ writesLeft > 0
  /\ IF id \notin 1..Len(bookings)
     THEN /\ bookings' = bookings
          /\ last' = [op |-> op, id |-> id, code |-> 404, updates |-> updates]
     ELSE IF Has(updates, "bookingTime")
             /\ FindSlot(TimeSlots, updates.bookingTime) = NoSlot
     THEN /\ bookings' = bookings
          /\ last' = [op |-> op, id |-> id, code |-> 400, updates |-> updates]
     ELSE /\ bookings' = [bookings EXCEPT ![id] = UpdatedBooking(@, updates, now)]
          /\ last' = [op |-> op, id |-> id, code |-> 200, updates |-> updates]
  /\ now' = now + 1
  /\ writesLeft' = writesLeft - 1
  /\ UNCHANGED <<services, reqs, callsLeft>>

\* the update without its `if (!booking)` test: an id that matches no row answers 200
BookingModelUpdateUnchecked(op, id, updates) ==
  /\ writesLeft > 0
  /\ bookings' = IF id \in 1..Len(bookings)
                 THEN [bookings EXCEPT ![id] = UpdatedBooking(@, updates, now)]
                 ELSE bookings
  /\ last' = [op |-> op, id |-> id, code |-> 200, updates |-> updates]
  /\ now' = now + 1
  /\ writesLeft' = writesLeft - 1
  /\ UNCHANGED <<services, reqs, callsLeft>>

\* db('bookings').where('id', id).update(updateData).returning(['*']);
\* if (!booking) throw new CustomError('Booking not found', 404)
BookingModelUpdate(op, id, updates) ==
  /\ writesLeft > 0
  /\ IF id \in 1..Len(bookings)
     THEN /\ bookings' = [bookings EXCEPT ![id] = UpdatedBooking(@, updates, now)]
          /\ last' = [op |-> op, id |-> id, code |-> 200, updates |-> updates]
     ELSE /\ bookings' = bookings
          /\ last' = [op |-> op, id |-> id, code |-> 404, updates |-> updates]
  /\ now' = now + 1
  /\ writesLeft' = writesLeft - 1
  /\ UNCHANGED <<services, reqs, callsLeft>>

\* BookingController.updateBooking -> BookingService.updateBooking(id, req.body)
UpdateBooking(id, updates) == BookingModelUpdate("updateBooking", id, updates)

\* confirmBooking / startBooking -> BookingService.updateBookingStatus(id, status)
UpdateBookingStatus(id, status) ==
  BookingModelUpdate("updateBookingStatus", id, [status |-> status])

\* BookingController.cancelBooking -> BookingService.cancelBooking -> BookingModel.delete
CancelBooking(id) ==
  /\ writesLeft > 0
  /\ IF id \in 1..Len(bookings)
     THEN /\ bookings' = [bookings EXCEPT ![id] = CancelledBooking(@, now)]
          /\ last' = [op |-> "cancelBooking", id |-> id, code |-> 200, updates |-> NoUpdates]
     ELSE /\ bookings' = bookings
          /\ last' = [op |-> "cancelBooking", id |-> id, code |-> 404, updates |-> NoUpdates]
  /\ now' = now + 1
  /\ writesLeft' = writesLeft - 1
  /\ UNCHANGED <<services, reqs, callsLeft>>

\* ServiceModel.update: updateData built from the fields present in `updates`
UpdatedService(row, updates, at) ==
  [row EXCEPT
     !.updated_at = at,
     !.name = IF Has(updates, "name") THEN updates.name ELSE @,
     !.base_price = IF Has(updates, "basePrice") THEN updates.basePrice ELSE @,
     !.estimated_duration =
        IF Has(updates, "estimatedDuration") THEN updates.estimatedDuration ELSE @,
     !.is_active = IF Has(updates, "isActive") THEN updates.isActive ELSE @,
     !.is_available_for_booking =
        IF Has(updates, "isAvailableForBooking") THEN updates.isAvailableForBooking ELSE @]

\* the service update carried over to the bookings of the service: their duration
\* rewritten to the new estimated_duration
UpdateServiceCascading(id, updates) ==
  /\ writesLeft > 0
  /\ IF id \in ServiceIds
     THEN /\ services' = [services EXCEPT ![id] = UpdatedService(@, updates, now)]
          /\ last' = [op |-> "updateService", id |-> id, code |-> 200, updates |-> updates]
     ELSE /\ services' = services
          /\ last' = [op |-> "updateService", id |-> id, code |-> 404, updates |-> updates]
  /\ bookings' = [i \in 1..Len(bookings) |->
                    IF bookings[i].service_id = id /\ Has(updates, "estimatedDuration")
                    THEN [bookings[i] EXCEPT !.duration = updates.estimatedDuration]
                    ELSE bookings[i]]
  /\ now' = now + 1
  /\ writesLeft' = writesLeft - 1
  /\ UNCHANGED <<reqs, callsLeft>>

\* ServiceController.updateService -> ServiceService.updateService -> ServiceModel.update
UpdateService(id, updates) ==
  /\ writesLeft > 0
  /\ IF id \in ServiceIds
     THEN /\ services' = [services EXCEPT ![id] = UpdatedService(@, updates, now)]
          /\ last' = [op |-> "updateService", id |-> id, code |-> 200, updates |-> updates]
     ELSE /\ services' = services
          /\ last' = [op |-> "updateService", id |-> id, code |-> 404, updates |-> updates]
  /\ now' = now + 1
  /\ writesLeft' = writesLeft - 1
  /\ UNCHANGED <<bookings, reqs, callsLeft>>

\* ServiceController.deleteService -> ServiceModel.delete: .update({is_active: false, ...})
DeleteService(id) ==
  /\ writesLeft > 0
  /\ IF id \in ServiceIds
     THEN /\ services' = [services EXCEPT ![id].is_active = FALSE, ![id].updated_at = now]
          /\ last' = [op |-> "deleteService", id |-> id, code |-> 200, updates |-> NoUpdates]
     ELSE /\ services' = services
          /\ last' = [op |-> "deleteService", id |-> id, code |-> 404, updates |-> NoUpdates]
  /\ now' = now + 1
  /\ writesLeft' = writesLeft - 1
  /\ UNCHANGED <<bookings, reqs, callsLeft>>

(***************************************************************************)
(* The inputs of the administrative writes.                                *)
(***************************************************************************)
BookingIds == 1..(Len(bookings) + 1)    \* the last one matches no row

\* confirmBooking, startBooking, and updateBookingStatus(id, 'completed')
StatusUpdates == {"confirmed", "in_progress", "completed"}

\* request bodies of PUT /bookings/:id, completeBooking and assignTechnician
BookingUpdates ==
  {[status |-> "pending"], [status |-> "confirmed"], [status |-> "no_show"],
   [status |-> "cancelled"], [status |-> "in_progress"], [status |-> "completed"],
   [status |-> "completed", actualCost |-> 180],
   [bookingTime |-> T0930], [bookingTime |-> T1000], [bookingDate |-> 16],
   [assignedTechnician |-> "Alex Smith"], [priority |-> "low"]}

\* the request bodies that change what getAvailableSlots reads
SlotUpdates ==
  {[status |-> "no_show"], [status |-> "pending"], [bookingTime |-> T1000],
   [bookingDate |-> 16]}

\* request bodies of PUT /services/:id
ServiceUpdates ==
  {[estimatedDuration |-> 60], [name |-> Rekeying], [name |-> LockInstallation],
   [isAvailableForBooking |-> FALSE]}

(***************************************************************************)
(* Spec: two connections issue createBooking calls whose store statements  *)
(* interleave with each other and with the administrative writes.          *)
(***************************************************************************)
Next ==
  \/ \E r \in Procs, service \in ReqServices, bookingTime \in ReqTimes,
        priority \in Priorities :
       CreateBooking(r, service, 15, bookingTime, priority)
  \/ \E r \in Procs : GasReadService(r)
  \/ \E r \in Procs : GasReadBookings(r)
  \/ \E r \in Procs : CreateReadService(r)
  \/ \E r \in Procs : CreateInsert(r)
  \/ \E r \in Procs : Respond(r)
  \/ \E id \in BookingIds, updates \in SlotUpdates : UpdateBooking(id, updates)
  \/ \E id \in BookingIds : UpdateBookingStatus(id, "confirmed")
  \/ \E id \in BookingIds : CancelBooking(id)
  \/ \E id \in ServiceIds, updates \in ServiceUpdates : UpdateService(id, updates)
  \/ \E id \in ServiceIds : DeleteService(id)

Spec == Init /\ [][Next]_vars

(***************************************************************************)
(* LifecycleSpec: two bookings exist (created at times 1 and 2) and the    *)
(* administrative writes run on them.                                      *)
(***************************************************************************)
LifecycleBookings ==
  << NewBooking([service |-> LockInstallation, bookingDate |-> 15,
                 bookingTime |-> T1000, priority |-> NullText],
                [id |-> 1, base_price |-> 150, estimated_duration |-> 120], 1),
     NewBooking([service |-> LockRepair, bookingDate |-> 15,
                 bookingTime |-> T0900, priority |-> "high"],
                [id |-> 2, base_price |-> 85, estimated_duration |-> 60], 2) >>

LifecycleInit ==
  /\ services = SeedServices
  /\ bookings = LifecycleBookings
  /\ now = 3
  /\ reqs = [r \in Procs |-> IdleReq]
  /\ last = NoOp
  /\ callsLeft = 0
  /\ writesLeft = MaxLifecycleWrites

LifecycleNext ==
  \/ \E id \in BookingIds, updates \in BookingUpdates : UpdateBooking(id, updates)
  \/ \E id \in BookingIds, status \in StatusUpdates : UpdateBookingStatus(id, status)
  \/ \E id \in BookingIds : CancelBooking(id)

LifecycleSpec == LifecycleInit /\ [][LifecycleNext]_vars

(***************************************************************************)
(* SeqSpec: one connection; its calls (createBooking, getAvailableSlots)   *)
(* run one at a time, and the administrative writes run between calls.     *)
(***************************************************************************)
AllIdle == \A r \in Procs : reqs[r].pc = "idle"

SeqNext ==
  \/ \E service \in Names, bookingDate \in Dates, bookingTime \in ReqTimes,
        priority \in Priorities :
       CreateBooking(1, service, bookingDate, bookingTime, priority)
  \/ \E service \in Names, date \in Dates : CheckAvailability(1, service, date)
  \/ GasReadService(1)
  \/ GasReadBookings(1)
  \/ CreateReadService(1)
  \/ CreateInsert(1)
  \/ Respond(1)
  \/ AllIdle /\ \E id \in BookingIds, updates \in BookingUpdates : UpdateBooking(id, updates)
  \/ AllIdle /\ \E id \in BookingIds, status \in StatusUpdates : UpdateBookingStatus(id, status)
  \/ AllIdle /\ \E id \in BookingIds : CancelBooking(id)
  \/ AllIdle /\ \E id \in ServiceIds, updates \in ServiceUpdates : UpdateService(id, updates)
  \/ AllIdle /\ \E id \in ServiceIds : DeleteService(id)

SeqSpec == Init /\ [][SeqNext]_vars

(***************************************************************************)
(* SlotsSpec: getAvailableSlots as a function of the store.  The initial   *)
(* states are stores the operations above can leave behind (bookings made  *)
(* while the service had another duration, moved by an administrative      *)
(* update, cancelled, marked no_show), and the one request is an           *)
(* availability query.                                                     *)
(***************************************************************************)
SlotDurations == {30, 60, 90, 120, 480}

T0930S == <<"0", "9", ":", "3", "0", ":", "0", "0">>

T1530S == <<"1", "5", ":", "3", "0", ":", "0", "0">>

\* booking_time values as the database hands them back
StoredTimes == {DbTime(TimeString(h)) : h \in 8..16} \cup {T0930S, T1530S}

StoredBooking(service, date, time, duration, status) ==
  [LifecycleBookings[1] EXCEPT !.service = service, !.booking_date = date,
                               !.booking_time = time, !.duration = duration,
                               !.status = status, !.service_id = 0]

WideBookings ==
  {StoredBooking(service, date, time, duration, status) :
     service \in ReqServices, date \in Dates, time \in StoredTimes,
     duration \in {30, 60, 90, 120}, status \in {"pending", "completed", "cancelled", "no_show"}}

NarrowBookings ==
  {StoredBooking(LockInstallation, 15, DbTime(TimeString(h)), 120, status) :
     h \in {10, 14}, status \in {"confirmed", "cancelled"}}

SlotStores ==
  {<<>>} \cup {<<a>> : a \in WideBookings}
         \cup {<<a, b>> : a \in WideBookings, b \in NarrowBookings}

SlotsInit ==
  /\ \E d \in SlotDurations :
       services = [SeedServices EXCEPT ![1].estimated_duration = d]
  /\ bookings \in SlotStores
  /\ now = Len(bookings) + 1
  /\ reqs = [r \in Procs |-> IdleReq]
  /\ last = NoOp
  /\ callsLeft = 1
  /\ writesLeft = 0

SlotsNext ==
  \/ \E service \in Names, date \in Dates : CheckAvailability(1, service, date)
  \/ GasReadService(1)
  \/ GasReadBookings(1)

SlotsSpec == SlotsInit /\ [][SlotsNext]_vars

(***************************************************************************)
(* Vocabulary of the properties, stated without the operators of the code. *)
(***************************************************************************)
T1200 == <<"1", "2", ":", "0", "0">>

T1300 == <<"1", "3", ":", "0", "0">>

T1400 == <<"1", "4", ":", "0", "0">>

T1500 == <<"1", "5", ":", "0", "0">>

T1600 == <<"1", "6", ":", "0", "0">>

GridTimes == <<T0900, T1000, T1100, T1200, T1300, T1400, T1500, T1600>>

GridHours == 9..16

\* a finished availability query and its answer
QueryDone(r) ==
  reqs[r].kind = "getAvailableSlots" /\ reqs[r].pc = "done" /\ reqs[r].code = 200

\* the hour and minute of a stored 'HH:MM:SS'
StoredHour(t) == 10 * DigitValue(t[1]) + DigitValue(t[2])

StoredMinute(t) == 10 * DigitValue(t[4]) + DigitValue(t[5])

\* the bookings that count against a slot of `service` on `date`
ActiveOn(service, date) ==
  {i \in 1..Len(bookings) : /\ bookings[i].service = service
                            /\ bookings[i].booking_date = date
                            /\ bookings[i].status \notin {"cancelled", "no_show"}}

\* the duration of the one bookable service of that name
DurationOf(service) ==
  services[CHOOSE s \in ServiceIds : services[s].name = service].estimated_duration

\* the answer's entry for the slot that starts at hour S
SlotAt(r, S) == reqs[r].slots[S - 8]

\* the time string of the grid slot that starts at hour S, and the requests on the grid
OnGrid(t) == \E S \in GridHours : GridTimes[S - 8] = t

GridHourOf(t) == CHOOSE S \in GridHours : GridTimes[S - 8] = t

\* an active booking of the service and date overlaps [S, S + D/60)
BlockedAt(service, date, S, D) ==
  \E i \in ActiveOn(service, date) :
    /\ 60 * S < 60 * StoredHour(bookings[i].booking_time) + bookings[i].duration
    /\ 60 * S + D > 60 * StoredHour(bookings[i].booking_time)

\* the requested slot of call r is on the grid and free in the present store, for the
\* duration its availability check read
RequestedSlotFree(r) ==
  /\ OnGrid(reqs[r].bookingTime)
  /\ ~BlockedAt(reqs[r].service, reqs[r].bookingDate,
                GridHourOf(reqs[r].bookingTime), reqs[r].duration)

\* this step ends call r after its availability check returned the slot list
EndsAfterSlots(r) ==
  /\ reqs[r].kind = "createBooking"
  /\ reqs[r].pc \in {"gas_bookings", "create_service", "create_insert"}
  /\ reqs'[r].pc = "done"

(***************************************************************************)
(* C1: a createBooking call whose availability check returned the slots    *)
(* succeeds (201) and inserts exactly one booking if and only if the       *)
(* requested time is the time string of a grid slot and that slot is       *)
(* available; in every other case it fails with 400 and the store is       *)
(* unchanged.  (Calls run one at a time: SeqSpec.)                         *)
(***************************************************************************)
C1_SlotDecides ==
  [][\A r \in Procs :
       /\ EndsAfterSlots(r) =>
            IF RequestedSlotFree(r)
            THEN /\ reqs'[r].code = 201
                 /\ Len(bookings') = Len(bookings) + 1
                 /\ SubSeq(bookings', 1, Len(bookings)) = bookings
                 /\ reqs'[r].id = Len(bookings')
            ELSE /\ reqs'[r].code = 400
                 /\ bookings' = bookings
       /\ (reqs[r].kind = "createBooking" /\ reqs'[r] # reqs[r] /\ ~EndsAfterSlots(r)) =>
            bookings' = bookings]_vars

\* a call refused with 400 for a grid slot that the booking of an earlier, successful
\* call occupies
C1_Witness ==
  /\ reqs[1].kind = "createBooking"
  /\ reqs[1].pc = "done"
  /\ reqs[1].code = 400
  /\ OnGrid(reqs[1].bookingTime)
  /\ Len(bookings) = 1
  /\ bookings[1].status = "pending"
  /\ bookings[1].booking_time # DbTime(reqs[1].bookingTime)

(***************************************************************************)
(* C2: no two bookings of the same service and date, both with status      *)
(* outside {cancelled, no_show}, have overlapping intervals                *)
(* [startHour, startHour + duration/60).                                   *)
(***************************************************************************)
C2_NoDoubleBooking ==
  \A i, j \in 1..Len(bookings) :
    ( /\ i # j
      /\ bookings[i].service = bookings[j].service
      /\ bookings[i].booking_date = bookings[j].booking_date
      /\ bookings[i].status \notin {"cancelled", "no_show"}
      /\ bookings[j].status \notin {"cancelled", "no_show"} ) =>
    ~ ( /\ 60 * StoredHour(bookings[i].booking_time)
             < 60 * StoredHour(bookings[j].booking_time) + bookings[j].duration
        /\ 60 * StoredHour(bookings[j].booking_time)
             < 60 * StoredHour(bookings[i].booking_time) + bookings[i].duration )

(***************************************************************************)
(* C3: two concurrent createBooking requests for the same service, date    *)
(* and time can both pass the availability check before either inserts;    *)
(* the second insert is not stopped by the first one's booking, and two    *)
(* pending bookings then occupy the same slot.                             *)
(***************************************************************************)
SameRequest(r, q) ==
  /\ reqs[r].service = reqs[q].service
  /\ reqs[r].bookingDate = reqs[q].bookingDate
  /\ reqs[r].bookingTime = reqs[q].bookingTime

C3_SecondInsertGoesThrough ==
  [][\A r, q \in Procs :
       ( /\ r # q
         /\ SameRequest(r, q)
         /\ reqs[r].pc = "create_insert"
         /\ reqs[q].pc = "done"
         /\ reqs[q].code = 201
         /\ reqs'[r] # reqs[r] ) =>
       /\ reqs'[r].code = 201
       /\ Len(bookings') = Len(bookings) + 1
       /\ bookings'[reqs'[r].id].status = "pending"
       /\ bookings'[reqs'[r].id].service = bookings'[reqs[q].id].service
       /\ bookings'[reqs'[r].id].booking_date = reqs[q].bookingDate
       /\ bookings'[reqs'[r].id].booking_time = DbTime(reqs[q].bookingTime)]_vars

\* check1, check2, insert1, insert2 and nothing else: no administrative write has run,
\* both calls answered 201 for the same request, and their two bookings are pending on
\* the same service, date and time
C3_Witness ==
  /\ writesLeft = MaxAdminWrites
  /\ services = SeedServices
  /\ reqs[1].pc = "done" /\ reqs[1].code = 201
  /\ reqs[2].pc = "done" /\ reqs[2].code = 201
  /\ SameRequest(1, 2)
  /\ Len(bookings) = 2
  /\ bookings[1].status = "pending" /\ bookings[2].status = "pending"
  /\ bookings[1].service = bookings[2].service
  /\ bookings[1].booking_date = bookings[2].booking_date
  /\ bookings[1].booking_time = bookings[2].booking_time

(***************************************************************************)
(* C4: for every candidate slot with start hour S and service duration D,  *)
(* getAvailableSlots marks the slot unavailable if and only if a booking   *)
(* of the same service and date with status outside {cancelled, no_show},  *)
(* start hour B and own stored duration Db has 60*S < 60*B + Db and        *)
(* 60*S + D > 60*B.                                                        *)
(***************************************************************************)
C4_OverlapRule ==
  \A r \in Procs :
    QueryDone(r) =>
      /\ Len(reqs[r].slots) >= 8
      /\ \A S \in GridHours :
           LET D == DurationOf(reqs[r].service)
               blocked ==
                 \E i \in ActiveOn(reqs[r].service, reqs[r].bookingDate) :
                   LET B == StoredHour(bookings[i].booking_time)
                       Db == bookings[i].duration
                   IN  60 * S < 60 * B + Db /\ 60 * S + D > 60 * B
           IN  SlotAt(r, S).available = ~blocked

\* a query answered with a blocked and a free slot, against a booking whose stored
\* duration is not the service's
C4_Witness ==
  \E r \in Procs :
    /\ QueryDone(r)
    /\ \E S \in GridHours : ~SlotAt(r, S).available
    /\ \E S \in GridHours : SlotAt(r, S).available
    /\ \E i \in ActiveOn(reqs[r].service, reqs[r].bookingDate) :
         bookings[i].duration # DurationOf(reqs[r].service)

(***************************************************************************)
(* C5: whatever the duration and the bookings, getAvailableSlots returns   *)
(* exactly 8 entries whose times are 09:00, 10:00, ..., 16:00 in ascending *)
(* order.                                                                  *)
(***************************************************************************)
C5_Grid ==
  \A r \in Procs :
    QueryDone(r) =>
      /\ Len(reqs[r].slots) = 8
      /\ [i \in 1..Len(reqs[r].slots) |-> reqs[r].slots[i].time] = GridTimes

\* a query for the service at duration 480 with an active booking on the date
C5_Witness ==
  \E r \in Procs :
    /\ QueryDone(r)
    /\ DurationOf(reqs[r].service) = 480
    /\ ActiveOn(reqs[r].service, reqs[r].bookingDate) # {}

(***************************************************************************)
(* C6: when no booking of the service on the date has a status outside     *)
(* {cancelled, no_show}, every one of the 8 slots is available.            *)
(***************************************************************************)
C6_EmptyDayFree ==
  \A r \in Procs :
    (QueryDone(r) /\ ActiveOn(reqs[r].service, reqs[r].bookingDate) = {}) =>
      /\ Len(reqs[r].slots) = 8
      /\ \A i \in 1..Len(reqs[r].slots) : reqs[r].slots[i].available

\* a query for a service and date whose only bookings are cancelled or no_show
C6_Witness ==
  \E r \in Procs :
    /\ QueryDone(r)
    /\ ActiveOn(reqs[r].service, reqs[r].bookingDate) = {}
    /\ \E i \in 1..Len(bookings) :
         /\ bookings[i].service = reqs[r].service
         /\ bookings[i].booking_date = reqs[r].bookingDate
         /\ bookings[i].status = "cancelled"
    /\ \E i \in 1..Len(bookings) :
         /\ bookings[i].service = reqs[r].service
         /\ bookings[i].booking_date = reqs[r].bookingDate
         /\ bookings[i].status = "no_show"

(***************************************************************************)
(* C7: for a service of duration 120 with exactly one active booking of    *)
(* duration 120 at grid hour B on the queried date, the slots at hours     *)
(* B-1, B and B+1 (those on the 09..16 grid) are unavailable and every     *)
(* other grid slot is available.                                           *)
(***************************************************************************)
C7_TwoHourNeighbours ==
  \A r \in Procs :
    \A i \in 1..Len(bookings) :
      ( /\ QueryDone(r)
        /\ DurationOf(reqs[r].service) = 120
        /\ ActiveOn(reqs[r].service, reqs[r].bookingDate) = {i}
        /\ bookings[i].duration = 120
        /\ StoredHour(bookings[i].booking_time) \in GridHours
        /\ StoredMinute(bookings[i].booking_time) = 0 ) =>
      \A S \in GridHours :
        LET B == StoredHour(bookings[i].booking_time)
        IN  SlotAt(r, S).available = (S \notin {B - 1, B, B + 1})

\* the scenario of the specification: Lock Installation (120) booked at 10:00 on the
\* 15th; 09:00, 10:00 and 11:00 come back unavailable and 12:00 available
C7_Witness ==
  \E r \in Procs :
    /\ QueryDone(r)
    /\ reqs[r].service = LockInstallation
    /\ reqs[r].bookingDate = 15
    /\ DurationOf(LockInstallation) = 120
    /\ \E i \in 1..Len(bookings) :
         /\ ActiveOn(LockInstallation, 15) = {i}
         /\ bookings[i].duration = 120
         /\ bookings[i].booking_time = DbTime(T1000)
    /\ ~SlotAt(r, 9).available
    /\ ~SlotAt(r, 10).available
    /\ ~SlotAt(r, 11).available
    /\ SlotAt(r, 12).available

(***************************************************************************)
(* C8: a booking whose status is cancelled or no_show makes no slot        *)
(* unavailable in a later getAvailableSlots call for its service and date, *)
(* and a later createBooking for a slot that only such bookings overlap    *)
(* succeeds.  (Calls run one at a time: SeqSpec.)                          *)
(***************************************************************************)
C8_InactiveDoNotBlock ==
  \A r \in Procs :
    /\ QueryDone(r) =>
         \A S \in GridHours :
           ~SlotAt(r, S).available =>
             BlockedAt(reqs[r].service, reqs[r].bookingDate, S, reqs[r].duration)
    /\ ( /\ reqs[r].kind = "createBooking"
         /\ reqs[r].pc = "done"
         /\ reqs[r].code = 400
         /\ OnGrid(reqs[r].bookingTime) ) =>
         BlockedAt(reqs[r].service, reqs[r].bookingDate,
                   GridHourOf(reqs[r].bookingTime), reqs[r].duration)

\* cancelBooking has cancelled the first booking, and a later createBooking for the
\* same service, date and time has succeeded
C8_Witness ==
  /\ Len(bookings) = 2
  /\ bookings[1].status = "cancelled"
  /\ last.op = "cancelBooking" /\ last.id = 1 /\ last.code = 200
  /\ reqs[1].kind = "createBooking" /\ reqs[1].pc = "done" /\ reqs[1].code = 201
  /\ reqs[1].id = 2
  /\ bookings[2].service = bookings[1].service
  /\ bookings[2].booking_date = bookings[1].booking_date
  /\ bookings[2].booking_time = bookings[1].booking_time
  /\ bookings[2].status = "pending"

(***************************************************************************)
(* C9: every booking inserted by a successful createBooking has status     *)
(* pending, the duration and the base price of the service row that        *)
(* BookingModel.create read (a row of that name), the requested priority   *)
(* or medium when none was given, and null confirmed_at / started_at /     *)
(* completed_at.                                                           *)
(***************************************************************************)
C9_InsertedRow ==
  [][\A r \in Procs :
       /\ (reqs[r].pc = "create_service" /\ reqs'[r].pc = "create_insert") =>
            \E s \in ServiceIds :
              /\ services[s].name = reqs[r].service
              /\ reqs'[r].svc.id = s
              /\ reqs'[r].svc.estimated_duration = services[s].estimated_duration
              /\ reqs'[r].svc.base_price = services[s].base_price
       /\ (reqs[r].pc = "create_insert" /\ reqs'[r].pc = "done" /\ reqs'[r].code = 201) =>
            /\ Len(bookings') = Len(bookings) + 1
            /\ reqs'[r].id = Len(bookings')
            /\ LET b == bookings'[Len(bookings')]
               IN  /\ b.status = "pending"
                   /\ b.duration = reqs[r].svc.estimated_duration
                   /\ b.estimated_cost = reqs[r].svc.base_price
                   /\ b.priority = IF reqs[r].priority = NullText
                                   THEN "medium" ELSE reqs[r].priority
                   /\ b.confirmed_at = NullTime
                   /\ b.started_at = NullTime
                   /\ b.completed_at = NullTime]_vars

\* two successful calls: Lock Installation without a priority (120 minutes, 150, medium)
\* and Lock Repair with priority high (60 minutes, 85)
C9_Witness ==
  /\ Len(bookings) = 2
  /\ \E i, j \in 1..2 :
       /\ bookings[i].service = LockInstallation
       /\ bookings[i].duration = 120 /\ bookings[i].estimated_cost = 150
       /\ bookings[i].priority = "medium" /\ bookings[i].status = "pending"
       /\ bookings[j].service = LockRepair
       /\ bookings[j].duration = 60 /\ bookings[j].estimated_cost = 85
       /\ bookings[j].priority = "high" /\ bookings[j].status = "pending"
  /\ \E r \in Procs : reqs[r].pc = "done" /\ reqs[r].code = 201 /\ reqs[r].id = 2

(***************************************************************************)
(* C10: updateBookingStatus(id, 'confirmed') on an existing booking sets   *)
(* confirmed_at to a non-null timestamp; updateBookingStatus(id,           *)
(* 'in_progress') leaves confirmed_at unchanged and sets started_at;       *)
(* 'completed' sets completed_at and leaves confirmed_at and started_at    *)
(* unchanged.                                                              *)
(***************************************************************************)
C10_StatusTimestamps ==
  [][(last'.op = "updateBookingStatus" /\ last'.code = 200) =>
       LET id == last'.id
           status == last'.updates.status
       IN  /\ id \in 1..Len(bookings)
           /\ bookings'[id].status = status
           /\ status = "confirmed" => bookings'[id].confirmed_at # NullTime
           /\ status = "in_progress" =>
                /\ bookings'[id].confirmed_at = bookings[id].confirmed_at
                /\ bookings'[id].started_at # NullTime
           /\ status = "completed" =>
                /\ bookings'[id].confirmed_at = bookings[id].confirmed_at
                /\ bookings'[id].started_at = bookings[id].started_at
                /\ bookings'[id].completed_at # NullTime]_vars

\* booking 1 confirmed, then started, then completed, each by updateBookingStatus
C10_Witness ==
  /\ last.op = "updateBookingStatus" /\ last.id = 1 /\ last.code = 200
  /\ last.updates.status = "completed"
  /\ bookings[1].status = "completed"
  /\ bookings[1].confirmed_at # NullTime
  /\ bookings[1].started_at > bookings[1].confirmed_at
  /\ bookings[1].completed_at > bookings[1].started_at

(***************************************************************************)
(* C11: getAvailableSlots fails with 404 when no service row of the given  *)
(* name is both active and available for booking, and returns the slot     *)
(* list otherwise; createBooking for such a service fails with the same    *)
(* 404 and inserts no booking.  (Calls run one at a time: SeqSpec.)        *)
(***************************************************************************)
Bookable(name) ==
  \E s \in ServiceIds : /\ services[s].name = name
                        /\ services[s].is_active
                        /\ services[s].is_available_for_booking

C11_ServiceNotFound ==
  [][\A r \in Procs :
       /\ (reqs[r].pc = "gas_service" /\ reqs'[r] # reqs[r]) =>
            IF Bookable(reqs[r].service)
            THEN reqs'[r].pc = "gas_bookings"
            ELSE /\ reqs'[r].pc = "done"
                 /\ reqs'[r].code = 404
                 /\ bookings' = bookings
       /\ (reqs[r].kind = "getAvailableSlots" /\ reqs[r].pc = "gas_bookings"
             /\ reqs'[r] # reqs[r]) =>
            /\ reqs'[r].pc = "done"
            /\ reqs'[r].code = 200
            /\ Len(reqs'[r].slots) = 8
       /\ (reqs[r].pc \in {"gas_bookings", "create_service", "create_insert"}) =>
            Bookable(reqs[r].service)
       /\ (reqs'[r].pc = "done" /\ reqs'[r].code = 404) => bookings' = bookings]_vars

\* deleteService has deactivated Lock Installation, and a createBooking for it has
\* ended 404 with no booking in the store
C11_Witness ==
  /\ ~services[1].is_active
  /\ services[1].name = LockInstallation
  /\ reqs[1].kind = "createBooking"
  /\ reqs[1].service = LockInstallation
  /\ reqs[1].pc = "done"
  /\ reqs[1].code = 404
  /\ bookings = <<>>

(***************************************************************************)
(* C12: updateBookingStatus, updateBooking and cancelBooking called with   *)
(* an id that matches no booking fail with 404 and leave every booking     *)
(* record unchanged (and answer 200 when the id matches a booking).        *)
(***************************************************************************)
BookingOps == {"updateBooking", "updateBookingStatus", "cancelBooking"}

C12_MissingIdNotFound ==
  [][(writesLeft' # writesLeft /\ last'.op \in BookingOps) =>
       IF last'.id \in 1..Len(bookings)
       THEN last'.code = 200
       ELSE /\ last'.code = 404
            /\ bookings' = bookings]_vars

\* updateBookingStatus on id 3 of a store of two bookings: 404, both records as they were
C12_Witness ==
  /\ last.op = "updateBookingStatus"
  /\ last.id = 3
  /\ last.code = 404
  /\ Len(bookings) = 2
  /\ bookings = LifecycleBookings
  /\ writesLeft = MaxLifecycleWrites - 1

(***************************************************************************)
(* C13: the duration stored on an existing booking is never changed: not   *)
(* by a service update (estimated_duration included) or deactivation, nor  *)
(* by a booking update, a status transition, a cancellation or another     *)
(* createBooking.                                                          *)
(***************************************************************************)
C13_DurationFixed ==
  [][/\ Len(bookings') >= Len(bookings)
     /\ \A i \in 1..Len(bookings) : bookings'[i].duration = bookings[i].duration]_vars

\* a 120-minute booking of service 1 after updateService set the service to 60 minutes
C13_Witness ==
  /\ last.op = "updateService" /\ last.id = 1 /\ last.code = 200
  /\ Has(last.updates, "estimatedDuration")
  /\ services[1].estimated_duration = 60
  /\ \E i \in 1..Len(bookings) :
       bookings[i].service_id = 1 /\ bookings[i].duration = 120

(***************************************************************************)
(* The reports: BookingModel.getBookingStats and getBookingsByDateRange,   *)
(* one query each.                                                         *)
(***************************************************************************)
NoDate == 0          \* startDate / endDate not given

AlexSmith == "Alex Smith"

SamJones == "Sam Jones"

\* WHERE booking_date >= startDate (if given) AND booking_date <= endDate (if given)
StatsRows(rows, startDate, endDate) ==
  SelectSeq(rows, LAMBDA b : /\ (startDate # NoDate => b.booking_date >= startDate)
                             /\ (endDate # NoDate => b.booking_date <= endDate))

\* COUNT(CASE WHEN status = ? THEN 1 END)
CountStatus(rows, status) == Len(SelectSeq(rows, LAMBDA b : b.status = status))

\* actual_cost where the estimate stands in only for a missing estimate
RevenueTermEstimateFirst(b) ==
  IF b.estimated_cost # NullCost THEN b.estimated_cost ELSE b.actual_cost

\* CASE WHEN actual_cost IS NOT NULL THEN actual_cost ELSE estimated_cost END
RevenueTerm(b) == IF b.actual_cost # NullCost THEN b.actual_cost ELSE b.estimated_cost

\* SUM(...): NULL values are skipped, and the sum of no value is NULL
RECURSIVE SqlSum(_)
SqlSum(vals) ==
  IF vals = <<>> THEN NullCost
  ELSE LET rest == SqlSum(Tail(vals))
       IN  IF Head(vals) = NullCost THEN rest
           ELSE IF rest = NullCost THEN Head(vals)
           ELSE Head(vals) + rest

\* COALESCE(v, d)
Coalesce(v, d) == IF v = NullCost THEN d ELSE v

\* the row of aggregates, each passed through parseInt(...) || 0 / parseFloat(...) || 0
BookingStats(rows, startDate, endDate) ==
  LET matched == StatsRows(rows, startDate, endDate)
  IN  [total |-> Len(matched),
       pending |-> CountStatus(matched, "pending"),
       confirmed |-> CountStatus(matched, "confirmed"),
       completed |-> CountStatus(matched, "completed"),
       cancelled |-> CountStatus(matched, "cancelled"),
       revenue |-> Coalesce(SqlSum([i \in 1..Len(matched) |-> RevenueTerm(matched[i])]), 0)]

\* BookingController.getBookingStats -> BookingService.getBookingStats(dateFrom, dateTo)
GetBookingStats(dateFrom, dateTo) ==
  /\ callsLeft > 0
  /\ last' = [op |-> "getBookingStats", id |-> 0, code |-> 200,
              updates |-> [dateFrom |-> dateFrom, dateTo |-> dateTo],
              result |-> BookingStats(bookings, dateFrom, dateTo)]
  /\ callsLeft' = callsLeft - 1
  /\ UNCHANGED <<services, bookings, now, reqs, writesLeft>>

\* the range query without its technician condition
DateRangeRowsAnyTechnician(rows, startDate, endDate, technician) ==
  {i \in 1..Len(rows) : /\ rows[i].booking_date >= startDate
                        /\ rows[i].booking_date <= endDate
                        /\ rows[i].status \notin InactiveStatuses}

\* where('booking_date', '>=', startDate).where('booking_date', '<=', endDate)
\*   .whereNotIn('status', ['cancelled', 'no_show']); if (technician) where(...)
DateRangeRows(rows, startDate, endDate, technician) ==
  {i \in 1..Len(rows) : /\ rows[i].booking_date >= startDate
                        /\ rows[i].booking_date <= endDate
                        /\ rows[i].status \notin InactiveStatuses
                        /\ (technician # NullText =>
                              rows[i].assigned_technician = technician)}

\* a `time` value as minutes of the day
TimeValue(t) == 60 * StoredHour(t) + StoredMinute(t)

\* orderBy('booking_date', 'asc').orderBy('booking_time', 'asc'): a may precede b
OrderedBefore(a, b) ==
  \/ a.booking_date < b.booking_date
  \/ /\ a.booking_date = b.booking_date
     /\ TimeValue(a.booking_time) <= TimeValue(b.booking_time)

\* the orders in which the database may hand the matched rows back (row numbers)
DateRangeResults(rows, startDate, endDate, technician) ==
  LET matched == DateRangeRows(rows, startDate, endDate, technician)
      n == Cardinality(matched)
  IN  {f \in [1..n -> matched] :
         /\ \A j, k \in 1..n : j # k => f[j] # f[k]
         /\ \A k \in 1..(n - 1) : OrderedBefore(rows[f[k]], rows[f[k + 1]])}

\* BookingController.getCalendarBookings -> BookingService.getBookingsByDateRange
GetBookingsByDateRange(startDate, endDate, technician) ==
  /\ callsLeft > 0
  /\ \E f \in DateRangeResults(bookings, startDate, endDate, technician) :
       last' = [op |-> "getBookingsByDateRange", id |-> 0, code |-> 200,
                updates |-> [startDate |-> startDate, endDate |-> endDate,
                             technician |-> technician],
                result |-> f]
  /\ callsLeft' = callsLeft - 1
  /\ UNCHANGED <<services, bookings, now, reqs, writesLeft>>

(***************************************************************************)
(* ReportSpec: one report query on a store of up to three bookings.        *)
(***************************************************************************)
ReportRow(date, time, status, estimated, actual, technician) ==
  [LifecycleBookings[1] EXCEPT !.booking_date = date, !.booking_time = time,
                               !.status = status, !.estimated_cost = estimated,
                               !.actual_cost = actual,
                               !.assigned_technician = technician]

\* estimated_cost and actual_cost: 150 / none, 200 / 180, none / none, 85 / 0
ReportCosts == {<<150, NullCost>>, <<200, 180>>, <<NullCost, NullCost>>, <<85, 0>>}

CostRows ==
  {ReportRow(date, DbTime(T1000), status, c[1], c[2], NullText) :
     date \in Dates, status \in {"pending", "in_progress", "completed", "cancelled"},
     c \in ReportCosts}

CalendarRows ==
  {ReportRow(date, time, status, 150, NullCost, technician) :
     date \in Dates, time \in {DbTime(T0900), T0930S, DbTime(T1000)},
     status \in {"confirmed", "no_show"},
     technician \in {NullText, AlexSmith, SamJones}}

ScenarioRows ==
  {ReportRow(15, DbTime(T0900), "completed", 150, NullCost, AlexSmith),
   ReportRow(15, DbTime(T0900), "completed", 200, 180, AlexSmith),
   ReportRow(16, DbTime(T1000), "confirmed", 85, NullCost, AlexSmith),
   ReportRow(15, DbTime(T1000), "pending", 150, NullCost, SamJones)}

ReportStores ==
  {<<>>} \cup {<<a>> : a \in CostRows \cup CalendarRows}
         \cup {<<a, b>> : a \in CostRows \cup CalendarRows, b \in ScenarioRows}
         \cup {<<a, b, c>> : a \in ScenarioRows, b \in ScenarioRows, c \in ScenarioRows}

ReportInit ==
  /\ services = SeedServices
  /\ bookings \in ReportStores
  /\ now = Len(bookings) + 1
  /\ reqs = [r \in Procs |-> IdleReq]
  /\ last = NoOp
  /\ callsLeft = 1
  /\ writesLeft = 0

ReportNext ==
  \/ \E dateFrom \in Dates \cup {NoDate}, dateTo \in Dates \cup {NoDate} :
       GetBookingStats(dateFrom, dateTo)
  \/ \E startDate \in Dates, endDate \in Dates,
        technician \in {NullText, AlexSmith, SamJones} :
       GetBookingsByDateRange(startDate, endDate, technician)

ReportSpec == ReportInit /\ [][ReportNext]_vars

(***************************************************************************)
(* C14: getBookingStats(dateFrom, dateTo) over the bookings whose          *)
(* booking_date lies in the inclusive range (unbounded on a side whose     *)
(* argument is omitted) returns total = the number of matched bookings,    *)
(* pending / confirmed / completed / cancelled = the number of matched     *)
(* bookings with that status, and revenue = the sum over all matched       *)
(* bookings of actual_cost when present, else estimated_cost, null         *)
(* counting as 0.                                                          *)
(***************************************************************************)
InStatsRange(i, dateFrom, dateTo) ==
  /\ (dateFrom = NoDate \/ dateFrom <= bookings[i].booking_date)
  /\ (dateTo = NoDate \/ bookings[i].booking_date <= dateTo)

CostOf(i) ==
  IF bookings[i].actual_cost # NullCost THEN bookings[i].actual_cost
  ELSE IF bookings[i].estimated_cost # NullCost THEN bookings[i].estimated_cost
  ELSE 0

RECURSIVE TotalCost(_)
TotalCost(S) ==
  IF S = {} THEN 0
  ELSE LET i == CHOOSE j \in S : TRUE IN CostOf(i) + TotalCost(S \ {i})

C14_Stats ==
  last.op = "getBookingStats" =>
    LET M == {i \in 1..Len(bookings) :
                InStatsRange(i, last.updates.dateFrom, last.updates.dateTo)}
        WithStatus(s) == Cardinality({i \in M : bookings[i].status = s})
    IN  /\ last.result.total = Cardinality(M)
        /\ last.result.pending = WithStatus("pending")
        /\ last.result.confirmed = WithStatus("confirmed")
        /\ last.result.completed = WithStatus("completed")
        /\ last.result.cancelled = WithStatus("cancelled")
        /\ last.result.revenue = TotalCost(M)

\* one completed booking with estimate 150 and no actual cost, one completed booking
\* with actual cost 180, a third booking outside the range: revenue 330
C14_Witness ==
  /\ last.op = "getBookingStats"
  /\ last.updates.dateFrom = 15 /\ last.updates.dateTo = 15
  /\ Len(bookings) = 3
  /\ \E i, j, k \in 1..3 :
       /\ bookings[i].booking_date = 15 /\ bookings[i].status = "completed"
       /\ bookings[i].actual_cost = NullCost /\ bookings[i].estimated_cost = 150
       /\ bookings[j].booking_date = 15 /\ bookings[j].status = "completed"
       /\ bookings[j].actual_cost = 180 /\ bookings[j].estimated_cost = 200
       /\ bookings[k].booking_date = 16
  /\ last.result.total = 2
  /\ last.result.completed = 2
  /\ last.result.revenue = 330

(***************************************************************************)
(* C15: getBookingsByDateRange(start, end, technician) returns exactly the *)
(* bookings with start <= booking_date <= end and status outside           *)
(* {cancelled, no_show}, restricted to assigned_technician = technician    *)
(* when one is given, each once, ordered by date ascending and then time   *)
(* ascending.                                                              *)
(***************************************************************************)
C15_DateRange ==
  last.op = "getBookingsByDateRange" =>
    LET q == last.updates
        res == last.result
        Wanted == {i \in 1..Len(bookings) :
                     /\ q.startDate <= bookings[i].booking_date
                     /\ bookings[i].booking_date <= q.endDate
                     /\ bookings[i].status # "cancelled"
                     /\ bookings[i].status # "no_show"
                     /\ (q.technician = NullText
                           \/ bookings[i].assigned_technician = q.technician)}
    IN  /\ {res[k] : k \in 1..Len(res)} = Wanted
        /\ Len(res) = Cardinality(Wanted)
        /\ \A k \in 1..(Len(res) - 1) :
             LET a == bookings[res[k]]
                 b == bookings[res[k + 1]]
             IN  \/ a.booking_date < b.booking_date
                 \/ /\ a.booking_date = b.booking_date
                    /\ 60 * StoredHour(a.booking_time) + StoredMinute(a.booking_time)
                         <= 60 * StoredHour(b.booking_time) + StoredMinute(b.booking_time)

\* a technician's calendar: the store holds a booking of another technician and the
\* answer lists two bookings of the technician asked for, the later stored first
C15_Witness ==
  /\ last.op = "getBookingsByDateRange"
  /\ last.updates.technician = AlexSmith
  /\ Len(bookings) = 3
  /\ \E i \in 1..3 : bookings[i].assigned_technician = SamJones
  /\ Len(last.result) = 2
  /\ last.result[1] > last.result[2]
  /\ bookings[last.result[1]].booking_date < bookings[last.result[2]].booking_date

(***************************************************************************)
(* C16: the dedicated transition operations (confirm, start: a call of     *)
(* updateBookingStatus; complete: updateBooking with status completed and  *)
(* the actual cost) never change the status of a booking to an earlier     *)
(* stage of the order pending < confirmed < in_progress < completed.       *)
(***************************************************************************)
Stage(status) ==
  CASE status = "pending" -> 1
    [] status = "confirmed" -> 2
    [] status = "in_progress" -> 3
    [] status = "completed" -> 4
    [] OTHER -> 0

DedicatedTransition(op) ==
  \/ op.op = "updateBookingStatus"
  \/ /\ op.op = "updateBooking"
     /\ Has(op.updates, "status")
     /\ op.updates.status = "completed"

C16_OnlyForward ==
  [][(/\ writesLeft' # writesLeft
      /\ DedicatedTransition(last')
      /\ last'.code = 200) =>
       LET before == bookings[last'.id].status
           after == bookings'[last'.id].status
       IN  (Stage(before) > 0 /\ Stage(after) > 0) => Stage(after) >= Stage(before)]_vars

(***************************************************************************)
(* C17: completed, cancelled and no_show are terminal: once a booking has  *)
(* one of these statuses, no later operation changes its status.           *)
(***************************************************************************)
TerminalStatuses == {"completed", "cancelled", "no_show"}

C17_TerminalStays ==
  [][\A i \in 1..Len(bookings) :
       bookings[i].status \in TerminalStatuses =>
         bookings'[i].status = bookings[i].status]_vars

(***************************************************************************)
(* C18: cancelBooking(id) on an existing booking answers 200 and sets the  *)
(* status to cancelled whatever the status was (pending, confirmed,        *)
(* in_progress, completed, no_show or cancelled), and changes no field of  *)
(* any booking other than that booking's status and updated_at.            *)
(***************************************************************************)
C18_CancelAlways ==
  [][(/\ writesLeft' # writesLeft
      /\ last'.op = "cancelBooking"
      /\ last'.id \in 1..Len(bookings)) =>
       /\ last'.code = 200
       /\ Len(bookings') = Len(bookings)
       /\ bookings'[last'.id].status = "cancelled"
       /\ bookings'[last'.id] =
            [bookings[last'.id] EXCEPT !.status = "cancelled",
                                       !.updated_at = bookings'[last'.id].updated_at]
       /\ \A i \in 1..Len(bookings) : i # last'.id => bookings'[i] = bookings[i]]_vars

\* a completed booking with a technician assigned, cancelled by cancelBooking: the
\* technician and the completion stamp are still on it
C18_Witness ==
  /\ last.op = "cancelBooking" /\ last.id = 1 /\ last.code = 200
  /\ bookings[1].status = "cancelled"
  /\ bookings[1].completed_at # NullTime
  /\ bookings[1].assigned_technician # NullText

(***************************************************************************)
(* C19: through the generic update path any of the six status values can   *)
(* be written to an existing booking from any prior status:                *)
(* updateBooking(id, {status: s}) answers 200 and leaves the booking with  *)
(* status s.                                                               *)
(***************************************************************************)
C19_AnyStatusWritable ==
  [][(/\ writesLeft' # writesLeft
      /\ last'.op = "updateBooking"
      /\ Has(last'.updates, "status")
      /\ last'.id \in 1..Len(bookings)) =>
       /\ last'.code = 200
       /\ bookings'[last'.id].status = last'.updates.status]_vars

\* a booking completed at least two writes earlier, written back to pending by
\* updateBooking
C19_Witness ==
  /\ last.op = "updateBooking" /\ last.id = 1 /\ last.code = 200
  /\ last.updates = [status |-> "pending"]
  /\ bookings[1].status = "pending"
  /\ bookings[1].completed_at # NullTime
  /\ bookings[1].updated_at > bookings[1].completed_at + 1

(***************************************************************************)
(* C20: no status timestamp is ever cleared: once confirmed_at, started_at *)
(* or completed_at of a booking is non-null, it is non-null after every    *)
(* later operation, a move to another status and a cancellation included.  *)
(***************************************************************************)
C20_StampsStay ==
  [][\A i \in 1..Len(bookings) :
       /\ i <= Len(bookings')
       /\ bookings[i].confirmed_at # NullTime => bookings'[i].confirmed_at # NullTime
       /\ bookings[i].started_at # NullTime => bookings'[i].started_at # NullTime
       /\ bookings[i].completed_at # NullTime => bookings'[i].completed_at # NullTime]_vars

\* a booking confirmed and started, then written back to pending: both stamps remain
C20_Witness ==
  /\ bookings[1].status = "pending"
  /\ bookings[1].confirmed_at # NullTime
  /\ bookings[1].started_at # NullTime
  /\ bookings[1].completed_at = NullTime
  /\ last.op = "updateBooking" /\ last.id = 1

(***************************************************************************)
(* C21: updateBooking that changes bookingDate or bookingTime of an        *)
(* existing booking answers 200 and stores the new date / time without any *)
(* availability check, also when the new time is off the 09:00-16:00 grid  *)
(* or overlaps another active booking of the same service.                 *)
(***************************************************************************)
C21_MoveNotRevalidated ==
  [][(/\ writesLeft' # writesLeft
      /\ last'.op = "updateBooking"
      /\ last'.id \in 1..Len(bookings)
      /\ (Has(last'.updates, "bookingTime") \/ Has(last'.updates, "bookingDate"))) =>
       /\ last'.code = 200
       /\ Has(last'.updates, "bookingTime") =>
            bookings'[last'.id].booking_time = DbTime(last'.updates.bookingTime)
       /\ Has(last'.updates, "bookingDate") =>
            bookings'[last'.id].booking_date = last'.updates.bookingDate
       /\ UNCHANGED reqs]_vars

\* a booking moved to 09:30, which is no grid slot, onto the hour of another active
\* booking of the same service and date
C21_Witness ==
  /\ last.op = "updateBooking" /\ last.code = 200
  /\ last.updates = [bookingTime |-> T0930]
  /\ last.id \in 1..Len(bookings)
  /\ bookings[last.id].booking_time = T0930S
  /\ bookings[last.id].status = "pending"
  /\ \E j \in 1..Len(bookings) :
       /\ j # last.id
       /\ bookings[j].service = bookings[last.id].service
       /\ bookings[j].booking_date = bookings[last.id].booking_date
       /\ bookings[j].status = "pending"
       /\ bookings[j].booking_time = DbTime(T0900)

(***************************************************************************)
(* C22: overlap detection drops minutes: the answer of getAvailableSlots   *)
(* is the answer for the store in which every booking_time HH:MM is        *)
(* replaced by HH:00, since only the integer hour enters the overlap test. *)
(***************************************************************************)
OnTheHour(t) == SubSeq(t, 1, 3) \o <<"0", "0", ":", "0", "0">>

HoursOnly(rows) ==
  [i \in 1..Len(rows) |-> [rows[i] EXCEPT !.booking_time = OnTheHour(@)]]

C22_MinutesDropped ==
  \A r \in Procs :
    QueryDone(r) =>
      reqs[r].slots =
        AvailableSlots(reqs[r].duration,
                       ExistingBookings(HoursOnly(bookings), reqs[r].service,
                                        reqs[r].bookingDate))

\* a 60-minute booking at 09:30 and a 60-minute service: 09:00 is reported taken and
\* 10:00 free, as for a booking at 09:00
C22_Witness ==
  \E r \in Procs :
    /\ QueryDone(r)
    /\ reqs[r].duration = 60
    /\ \E i \in ActiveOn(reqs[r].service, reqs[r].bookingDate) :
         /\ bookings[i].booking_time = T0930S
         /\ bookings[i].duration = 60
    /\ ~SlotAt(r, 9).available
    /\ SlotAt(r, 10).available

(***************************************************************************)
(* C23: availability is matched by the stored service name and the exact   *)
(* date only: a slot all of whose overlapping active bookings are stored   *)
(* under another name or another date is reported available, and a         *)
(* createBooking for it is not refused; so after a service is renamed its  *)
(* earlier bookings no longer block it and a new booking can be created on *)
(* top of them.  (Calls run one at a time: SeqSpec.)                       *)
(***************************************************************************)
\* booking i, active, overlaps [S, S + D/60) by the hour arithmetic
Covers(i, S, D) ==
  /\ bookings[i].status \notin {"cancelled", "no_show"}
  /\ 60 * S < 60 * StoredHour(bookings[i].booking_time) + bookings[i].duration
  /\ 60 * S + D > 60 * StoredHour(bookings[i].booking_time)

OnlyForeignCover(name, date, S, D) ==
  \A i \in 1..Len(bookings) :
    Covers(i, S, D) => (bookings[i].service # name \/ bookings[i].booking_date # date)

C23_NameAndDateOnly ==
  \A r \in Procs :
    /\ QueryDone(r) =>
         \A S \in GridHours :
           OnlyForeignCover(reqs[r].service, reqs[r].bookingDate, S, reqs[r].duration)
             => SlotAt(r, S).available
    /\ ( /\ reqs[r].kind = "createBooking"
         /\ reqs[r].pc = "done"
         /\ OnGrid(reqs[r].bookingTime)
         /\ reqs[r].code # 404
         /\ \A i \in 1..Len(bookings) :
              (i # reqs[r].id /\ Covers(i, GridHourOf(reqs[r].bookingTime), reqs[r].duration))
                => ( \/ bookings[i].service # reqs[r].service
                     \/ bookings[i].booking_date # reqs[r].bookingDate ) )
         => reqs[r].code = 201

\* service 1 was renamed after its first booking; a second booking of service 1, under
\* the new name, now stands on the same date and hour as the first
C23_Witness ==
  /\ services[1].name = Rekeying
  /\ Len(bookings) = 2
  /\ reqs[1].pc = "done" /\ reqs[1].code = 201 /\ reqs[1].id = 2
  /\ bookings[1].service_id = 1 /\ bookings[2].service_id = 1
  /\ bookings[1].service = LockInstallation /\ bookings[2].service = Rekeying
  /\ bookings[1].booking_date = bookings[2].booking_date
  /\ bookings[1].booking_time = bookings[2].booking_time
  /\ bookings[1].status = "pending" /\ bookings[2].status = "pending"

(***************************************************************************)
(* FairSpec: the requests of Spec where a store statement may also fail    *)
(* (the catch blocks turn any other error into CustomError 500), and every *)
(* awaited statement of a request in flight is eventually answered.        *)
(***************************************************************************)
InFlight == {"gas_service", "gas_bookings", "create_service", "create_insert"}

\* catch (error) { if (error instanceof CustomError) throw error; throw new CustomError(.., 500) }
PersistenceFailure(r) ==
  /\ reqs[r].pc \in InFlight
  /\ reqs' = [reqs EXCEPT ![r].pc = "done", ![r].code = 500]
  /\ UNCHANGED <<services, bookings, now, last, callsLeft, writesLeft>>

\* the next store statement of request r, answered
Proceed(r) ==
  \/ GasReadService(r)
  \/ GasReadBookings(r)
  \/ CreateReadService(r)
  \/ CreateInsert(r)

FairNext ==
  \/ \E r \in Procs, service \in ReqServices, bookingTime \in {T0900, T0930} :
       CreateBooking(r, service, 15, bookingTime, NullText)
  \/ \E r \in Procs : CheckAvailability(r, LockInstallation, 15)
  \/ \E r \in Procs : Proceed(r)
  \/ \E r \in Procs : PersistenceFailure(r)
  \/ \E r \in Procs : Respond(r)
  \/ \E id \in BookingIds, status \in {"confirmed", "completed"} :
       UpdateBookingStatus(id, status)
  \/ \E id \in BookingIds : CancelBooking(id)
  \/ \E id \in ServiceIds : DeleteService(id)

FairSpec ==
  /\ Init
  /\ [][FairNext]_vars
  /\ \A r \in Procs : WF_vars(Proceed(r))

(***************************************************************************)
(* C24: every started request (getAvailableSlots, createBooking; and the   *)
(* one-statement updateBookingStatus and cancelBooking) eventually         *)
(* finishes, given that its store statements are answered, with exactly    *)
(* one outcome: success (200 / 201) or one error (400 slot unavailable,    *)
(* 404 not found, 500 persistence failure); a finished request is not      *)
(* started again and its outcome is not replaced.                          *)
(***************************************************************************)
Outcomes(kind) ==
  IF kind = "createBooking" THEN {201, 400, 404, 500} ELSE {200, 404, 500}

SerialTimes == {T0900, T1000, T1100, T1600}

\* request bodies of updateService without a name
KeepNameUpdates ==
  {[estimatedDuration |-> 60], [estimatedDuration |-> 90], [estimatedDuration |-> 120],
   [isAvailableForBooking |-> FALSE]}

SerialNext ==
  \/ \E service \in ReqServices, bookingTime \in SerialTimes :
       CreateBooking(1, service, 15, bookingTime, NullText)
  \/ GasReadService(1)
  \/ GasReadBookings(1)
  \/ CreateReadService(1)
  \/ CreateInsert(1)
  \/ Respond(1)
  \/ \E id \in BookingIds : CancelBooking(id)
  \/ \E id \in ServiceIds, updates \in KeepNameUpdates : UpdateService(id, updates)
  \/ \E id \in ServiceIds : DeleteService(id)

SerialSpec == Init /\ [][SerialNext]_vars

(***************************************************************************)
(* C25: with createBooking calls run one at a time and, besides them, only *)
(* cancellations and service edits that keep the name, no two active       *)
(* bookings of the same service and date overlap in                        *)
(* [startHour, startHour + duration/60).                                   *)
(***************************************************************************)
StartOf(i) == 60 * StoredHour(bookings[i].booking_time)

EndOf(i) == StartOf(i) + bookings[i].duration

C25_SerialNoOverlap ==
  \A i \in 1..Len(bookings) :
    \A j \in (i + 1)..Len(bookings) :
      ( /\ bookings[i].service = bookings[j].service
        /\ bookings[i].booking_date = bookings[j].booking_date
        /\ bookings[i].status \notin InactiveStatuses
        /\ bookings[j].status \notin InactiveStatuses )
      => (EndOf(i) <= StartOf(j) \/ EndOf(j) <= StartOf(i))

(***************************************************************************)
(* C26: the duration stored on a booking created by createBooking is the   *)
(* service duration that the availability check of the same call used,     *)
(* also when a service update is interleaved between the check and the     *)
(* insert.                                                                 *)
(***************************************************************************)
C26_CheckedDurationStored ==
  [][\A r \in Procs :
       (reqs[r].pc = "create_insert" /\ reqs'[r].pc = "done" /\ reqs'[r].code = 201) =>
         bookings'[reqs'[r].id].duration = reqs[r].duration]_vars

(***************************************************************************)
(* C27: createBooking never inserts a booking for a service that is        *)
(* inactive or not available for booking at the moment of the insert, also *)
(* when the service is deactivated or made unbookable between the          *)
(* availability check and the insert.                                      *)
(***************************************************************************)
C27_InsertOnlyBookable ==
  [][\A r \in Procs :
       (reqs[r].pc = "create_insert" /\ reqs'[r].pc = "done" /\ reqs'[r].code = 201) =>
         LET s == bookings'[reqs'[r].id].service_id
         IN  /\ services[s].is_active
             /\ services[s].is_available_for_booking]_vars

(***************************************************************************)
(* C28: every booking created through createBooking starts at a whole hour *)
(* in 09..16 and ends no later than 17:00: startHour * 60 + duration <=    *)
(* 17 * 60.                                                                *)
(***************************************************************************)
C28_EndsWithinGrid ==
  \A i \in 1..Len(bookings) :
    /\ StoredMinute(bookings[i].booking_time) = 0
    /\ StoredHour(bookings[i].booking_time) \in 9..16
    /\ 60 * StoredHour(bookings[i].booking_time) + bookings[i].duration <= 17 * 60

(***************************************************************************)
(* C29: in every reachable state a booking with status confirmed has       *)
(* non-null confirmed_at, one with status in_progress has non-null         *)
(* started_at, and one with status completed has non-null completed_at.    *)
(***************************************************************************)
C29_StatusHasStamp ==
  \A i \in 1..Len(bookings) :
    /\ bookings[i].status = "confirmed" => bookings[i].confirmed_at # NullTime
    /\ bookings[i].status = "in_progress" => bookings[i].started_at # NullTime
    /\ bookings[i].status = "completed" => bookings[i].completed_at # NullTime

\* a pending booking written to in_progress directly, then completed: started_at and
\* completed_at are set, confirmed_at never was
C29_Witness ==
  /\ bookings[1].status = "completed"
  /\ bookings[1].confirmed_at = NullTime
  /\ bookings[1].started_at # NullTime
  /\ bookings[1].completed_at > bookings[1].started_at
  /\ bookings[2].status = "confirmed"
  /\ bookings[2].confirmed_at # NullTime

(***************************************************************************)
(* C30: updateBooking changes only the fields supplied in the update, plus *)
(* updated_at and, when a status is supplied, the timestamp matching that  *)
(* status; assignTechnician leaves status, booking date, booking time,     *)
(* duration and the three status timestamps unchanged; and no update       *)
(* changes another booking.                                                *)
(***************************************************************************)
Stamped(u, status) == Has(u, "status") /\ u.status = status

C30_OnlySuppliedFields ==
  [][(/\ writesLeft' # writesLeft
      /\ last'.op \in {"updateBooking", "updateBookingStatus"}
      /\ last'.id \in 1..Len(bookings)) =>
       LET u == last'.updates
           old == bookings[last'.id]
           new == bookings'[last'.id]
       IN  /\ Len(bookings') = Len(bookings)
           /\ \A i \in 1..Len(bookings) : i # last'.id => bookings'[i] = bookings[i]
           /\ new.service_id = old.service_id
           /\ new.service = old.service
           /\ new.duration = old.duration
           /\ Has(u, "status") \/ new.status = old.status
           /\ Has(u, "bookingDate") \/ new.booking_date = old.booking_date
           /\ Has(u, "bookingTime") \/ new.booking_time = old.booking_time
           /\ Has(u, "priority") \/ new.priority = old.priority
           /\ Has(u, "estimatedCost") \/ new.estimated_cost = old.estimated_cost
           /\ Has(u, "actualCost") \/ new.actual_cost = old.actual_cost
           /\ Has(u, "assignedTechnician")
                \/ new.assigned_technician = old.assigned_technician
           /\ Stamped(u, "confirmed") \/ new.confirmed_at = old.confirmed_at
           /\ Stamped(u, "in_progress") \/ new.started_at = old.started_at
           /\ Stamped(u, "completed") \/ new.completed_at = old.completed_at]_vars

\* a technician assigned to a booking in progress: the booking is still in progress,
\* with its stamps, and the assignment is the last thing written to it
C30_Witness ==
  /\ last.op = "updateBooking" /\ last.id = 1 /\ last.code = 200
  /\ DOMAIN last.updates = {"assignedTechnician"}
  /\ bookings[1].assigned_technician = last.updates.assignedTechnician
  /\ bookings[1].status = "in_progress"
  /\ bookings[1].started_at # NullTime
  /\ bookings[1].updated_at > bookings[1].started_at
  /\ bookings[1].booking_time = LifecycleBookings[1].booking_time
  /\ bookings[2] = LifecycleBookings[2]

====
